---- MODULE Spec2Model ----
(***************************************************************************)
(* Model of the IndieTap Studio site scripts:                              *)
(*   js/localization.js  - LocalizationManager (language + theme)          *)
(*   js/policy-loader.js - PolicyLoader (policy text fetch + display)      *)
(*   js/script.js        - tab panels and mobile menu                      *)
(* One page load is modelled: Init is the state right after both scripts   *)
(* have run their constructors while the document is still loading; the    *)
(* browser's event loop then runs one task per step.                       *)
(***************************************************************************)
EXTENDS Integers, FiniteSets, Sequences, TLC

\* ------------------------------------------------------------------ bounds
MaxInflight == 2      \* policy fetches explored in flight at a time
MaxInitCalls == 1     \* init() calls explored besides the page's own

\* ------------------------------------------------------------------ values
None == "none"        \* null / undefined / absent key
Raw == "raw"          \* text or attribute as the static markup provides it
Langs == {"en", "cs"}
Themes == {"light", "dark"}
LangValues == {None, "en", "cs", "xx"}      \* "xx": any unsupported string
ThemeValues == {None, "light", "dark", "xx"}
Elems == {"k1", "k2", "k3"}                 \* elements carrying data-key
LoadingKey == "loading"                     \* privacy.loading / terms.loading
Keys == Elems \cup {LoadingKey}
\* the keys the two catalog files resolve: k2 in English only, the rest in both
CatalogChoices == {[en |-> Keys, cs |-> Keys \ {"k2"}]}
ContainerKinds == {"absent", "both", "nopath"}
TimerKinds == {"reset", "class", "sel5", "sel10", "selRetry", "setupRetry",
               "init50", "init150", "init300", "loadUpd", "plSel"}
\* setTimeout delays in ms
Delay ==
  [k \in TimerKinds |->
     CASE k = "reset" -> 300
       [] k = "class" -> 100
       [] k = "sel5" -> 5
       [] k = "sel10" -> 10
       [] k = "selRetry" -> 100
       [] k = "setupRetry" -> 100
       [] k = "init50" -> 50
       [] k = "init150" -> 150
       [] k = "init300" -> 300
       [] k = "loadUpd" -> 100
       [] k = "plSel" -> 100]
NoCatalogs == [l \in {} |-> {}]
NotKept == [u |-> None, savedLang |-> None, savedTheme |-> None,
            dark |-> FALSE]
NoProbe == [fn |-> "none"]
NoTrip == "none"
NoTask ==
  [emitted |-> 0, received |-> 0, pageLoads |-> 0, fetches |-> 0,
   order |-> <<>>]

VARIABLES
  \* the page that was loaded (fixed during the load)
  hasSelector, containerKind,
  \* what the constructors read: URL parameter, stored language and theme,
  \* OS colour-scheme signal (kept only while the constructors are examined)
  ctorInputs,
  \* a call of one of the pure functions: its arguments and its result, or
  \* the tabs and the mobile menu of script.js (kept only while that function
  \* or those widgets are examined)
  probe,
  \* the language and the texts shown before each of the last two accepted
  \* language switches (kept only while round trips are examined)
  trip,
  \* localStorage
  lsLang, lsTheme,
  \* window._initialLanguage
  winInitialLanguage,
  \* LocalizationManager fields
  currentLang, currentTheme, translations, initialized, languageChanging,
  eventListenersSetup,
  \* position of init() and of the page
  initPc, phase, windowLoaded,
  \* init() calls of other scripts that await the catalogs, the number of
  \* times init() issued the catalog fetches and ran its part after them
  initAwaiting, catalogFetches, initRuns,
  \* DOM
  docLang, rootDark, selValue, selListeners, themeListeners, text,
  langChangingClass, bodyLoading, content,
  \* detail.language of the last languageChanged event
  lastNotif,
  \* PolicyLoader
  plLang, inflight,
  \* what the task that ran last did: languageChanged events dispatched,
  \* events received by the PolicyLoader, page-load triggers, fetches started
  task,
  \* what the last notification, render pass and policy fetch worked with
  notifSnap, renderSnap, fetchSnap,
  \* timers pending in the event loop, and whether an animation frame is
  timers, rafPending

envVars == <<hasSelector, containerKind, ctorInputs, probe>>
initVars == <<initAwaiting, catalogFetches, initRuns>>
vars == <<hasSelector, ctorInputs, probe, trip, initAwaiting, catalogFetches, initRuns,
          containerKind, lsLang, lsTheme, winInitialLanguage, currentLang,
          currentTheme, translations, initialized, languageChanging,
          eventListenersSetup, initPc, phase, windowLoaded, docLang, rootDark,
          selValue, selListeners, themeListeners, text, langChangingClass,
          bodyLoading, content, lastNotif, plLang, inflight, task,
          notifSnap, renderSnap, fetchSnap,
          timers, rafPending>>
\* everything but the pure-function call
pageVars == <<hasSelector, ctorInputs, trip, initAwaiting, catalogFetches, initRuns,
          containerKind, lsLang, lsTheme, winInitialLanguage, currentLang,
          currentTheme, translations, initialized, languageChanging,
          eventListenersSetup, initPc, phase, windowLoaded, docLang, rootDark,
          selValue, selListeners, themeListeners, text, langChangingClass,
          bodyLoading, content, lastNotif, plLang, inflight, task,
          notifSnap, renderSnap, fetchSnap,
          timers, rafPending>>

\* The mutable state as one record, so that a handler is the composition of
\* the calls it makes.
St ==
  [lsLang |-> lsLang, lsTheme |-> lsTheme, currentLang |-> currentLang,
   currentTheme |-> currentTheme, translations |-> translations,
   initialized |-> initialized, languageChanging |-> languageChanging,
   eventListenersSetup |-> eventListenersSetup, docLang |-> docLang,
   rootDark |-> rootDark, selValue |-> selValue,
   selListeners |-> selListeners, themeListeners |-> themeListeners,
   text |-> text, langChangingClass |-> langChangingClass,
   bodyLoading |-> bodyLoading, content |-> content,
   lastNotif |-> lastNotif, plLang |-> plLang, inflight |-> inflight,
   task |-> NoTask, trip |-> trip,
   notifSnap |-> notifSnap, renderSnap |-> renderSnap,
   fetchSnap |-> fetchSnap, timers |-> timers,
   rafPending |-> rafPending, sched |-> <<>>]

Commit(s) ==
  /\ lsLang' = s.lsLang
  /\ lsTheme' = s.lsTheme
  /\ currentLang' = s.currentLang
  /\ currentTheme' = s.currentTheme
  /\ translations' = s.translations
  /\ initialized' = s.initialized
  /\ languageChanging' = s.languageChanging
  /\ eventListenersSetup' = s.eventListenersSetup
  /\ docLang' = s.docLang
  /\ rootDark' = s.rootDark
  /\ selValue' = s.selValue
  /\ selListeners' = s.selListeners
  /\ themeListeners' = s.themeListeners
  /\ text' = s.text
  /\ langChangingClass' = s.langChangingClass
  /\ bodyLoading' = s.bodyLoading
  /\ content' = s.content
  /\ lastNotif' = s.lastNotif
  /\ plLang' = s.plLang
  /\ inflight' = s.inflight
  /\ task' = s.task
  /\ trip' = s.trip
  /\ notifSnap' = s.notifSnap
  /\ renderSnap' = s.renderSnap
  /\ fetchSnap' = s.fetchSnap
  /\ timers' = IF s.sched = <<>> THEN s.timers ELSE Append(s.timers, s.sched)
  /\ rafPending' = s.rafPending
  /\ s.inflight["en"] + s.inflight["cs"] <= MaxInflight

\* A snapshot taken when a notification is dispatched, a render pass starts
\* or a fetch is issued: the language it uses, localStorage's language and
\* the manager's language at that moment, and the path fetched.
NoSnap == [lang |-> None, persisted |-> None, active |-> None, path |-> None]
Snap(s, lang, path) ==
  [lang |-> lang, persisted |-> s.lsLang, active |-> s.currentLang,
   path |-> path]

\* ------------------------------------------------------------ constructors
\* urlLang && (urlLang === 'en' || urlLang === 'cs')
ValidUrlLang_any(u) == u # None
ValidUrlLang(u) == u = "en" \/ u = "cs"

\* LocalizationManager.constructor, language part
ResolveLanguage(u, initLang, saved) ==
  IF ValidUrlLang(u) THEN u
  ELSE IF initLang # None THEN initLang
  ELSE IF saved # None THEN saved
  ELSE "en"

PersistLanguageAtLoad(u, saved) == IF ValidUrlLang(u) THEN u ELSE saved

\* LocalizationManager.constructor, theme part
ResolveTheme_ignoresSignal(initTheme, saved, dark) ==
  IF initTheme # None THEN initTheme
  ELSE IF saved # None THEN saved
  ELSE "light"
ResolveTheme(initTheme, saved, dark) ==
  IF initTheme # None THEN initTheme
  ELSE IF saved # None THEN saved
  ELSE IF dark THEN "dark" ELSE "light"

PersistThemeAtLoad(initTheme, saved, dark) ==
  IF initTheme # None \/ saved # None THEN saved
  ELSE IF dark THEN "dark" ELSE "light"

\* window._initialTheme: never assigned by the scripts
WinInitialTheme == None

\* PolicyLoader.constructor, language part
ResolvePolicyLanguage_default(u, saved) == "en"
ResolvePolicyLanguage(u, saved) ==
  IF ValidUrlLang(u) THEN u
  ELSE IF saved # None THEN saved
  ELSE "en"

\* What both constructors leave behind, for a URL parameter u, a stored
\* language and theme, and an OS colour-scheme signal
ConstructorResult(u, savedLang, savedTheme, dark) ==
  [lsLang |-> PersistLanguageAtLoad(u, savedLang),
   lsTheme |-> PersistThemeAtLoad(WinInitialTheme, savedTheme, dark),
   winInitialLanguage |-> IF ValidUrlLang(u) THEN u ELSE None,
   currentLang |-> ResolveLanguage(u, None, savedLang),
   currentTheme |-> ResolveTheme(WinInitialTheme, savedTheme, dark),
   lastNotif |-> IF ValidUrlLang(u) THEN u ELSE None,
   notifSnap |-> IF ValidUrlLang(u)
                 THEN [lang |-> u,
                       persisted |-> PersistLanguageAtLoad(u, savedLang),
                       active |-> u, path |-> None]
                 ELSE NoSnap,
   plLang |-> ResolvePolicyLanguage(u, PersistLanguageAtLoad(u, savedLang)),
   timers |-> IF ValidUrlLang(u) THEN <<(<<"plSel">>)>> ELSE <<>>]

\* The state after both constructors have run
Constructed(u, savedLang, savedTheme, dark) ==
  LET c == ConstructorResult(u, savedLang, savedTheme, dark)
  IN /\ lsLang = c.lsLang
     /\ lsTheme = c.lsTheme
     /\ winInitialLanguage = c.winInitialLanguage
     /\ currentLang = c.currentLang
     /\ currentTheme = c.currentTheme
     /\ lastNotif = c.lastNotif
     /\ notifSnap = c.notifSnap
     /\ plLang = c.plLang
     /\ timers = c.timers

\* The document and the fields the constructors set unconditionally
DocumentAtLoad ==
  /\ hasSelector \in BOOLEAN
  /\ containerKind \in ContainerKinds
  /\ translations = NoCatalogs
  /\ initialized = FALSE
  /\ languageChanging = FALSE
  /\ eventListenersSetup = FALSE
  /\ initPc = "idle"
  /\ initAwaiting = 0
  /\ catalogFetches = 0
  /\ initRuns = 0
  /\ windowLoaded = FALSE
  /\ docLang = Raw
  /\ rootDark = FALSE
  /\ selValue = IF hasSelector THEN "en" ELSE None
  /\ selListeners = 0
  /\ themeListeners = 0
  /\ text = [e \in Elems |-> Raw]
  /\ langChangingClass = FALSE
  /\ bodyLoading = TRUE
  /\ content = [kind |-> IF containerKind = "absent" THEN "absent" ELSE Raw,
                lang |-> Raw]
  /\ rafPending = FALSE
  /\ inflight = [p \in Langs |-> 0]
  /\ task = NoTask
  /\ renderSnap = NoSnap
  /\ fetchSnap = NoSnap

ScriptsLoaded ==
  /\ DocumentAtLoad
  /\ ctorInputs = NotKept
  /\ phase = "loading"
  /\ \E u \in LangValues, savedLang \in LangValues,
        savedTheme \in ThemeValues, dark \in BOOLEAN :
       Constructed(u, savedLang, savedTheme, dark)

Init ==
  /\ ScriptsLoaded
  /\ trip = NoTrip
  /\ probe = NoProbe

\* The page while its scripts have not run yet, for every URL parameter,
\* stored language and theme and OS signal
BeforeScripts ==
  /\ DocumentAtLoad
  /\ trip = NoTrip
  /\ probe = NoProbe
  /\ phase = "parsing"
  /\ \E u \in LangValues, savedLang \in LangValues,
        savedTheme \in ThemeValues, dark \in BOOLEAN :
       /\ ctorInputs = [u |-> u, savedLang |-> savedLang,
                        savedTheme |-> savedTheme, dark |-> dark]
       /\ lsLang = savedLang
       /\ lsTheme = savedTheme
  /\ winInitialLanguage = None
  /\ currentLang = None
  /\ currentTheme = None
  /\ lastNotif = None
  /\ notifSnap = NoSnap
  /\ plLang = None
  /\ timers = <<>>

\* localization.js and policy-loader.js run: both constructors
RunScripts ==
  /\ phase = "parsing"
  /\ phase' = "loading"
  /\ LET c == ConstructorResult(ctorInputs.u, lsLang, lsTheme, ctorInputs.dark)
     IN /\ lsLang' = c.lsLang
        /\ lsTheme' = c.lsTheme
        /\ winInitialLanguage' = c.winInitialLanguage
        /\ currentLang' = c.currentLang
        /\ currentTheme' = c.currentTheme
        /\ lastNotif' = c.lastNotif
        /\ notifSnap' = c.notifSnap
        /\ plLang' = c.plLang
        /\ timers' = c.timers
  /\ UNCHANGED ctorInputs
  /\ UNCHANGED <<hasSelector, containerKind, trip, probe, translations,
                 initialized,
                 languageChanging, eventListenersSetup, initPc, initVars,
                 windowLoaded, docLang, rootDark, selValue, selListeners,
                 themeListeners, text, langChangingClass, bodyLoading, content,
                 rafPending, inflight, task, renderSnap, fetchSnap>>

\* ------------------------------------------------------------------ helpers
\* setTimeout / requestAnimationFrame called by the running task
AddTimer(s, k) == [s EXCEPT !.sched = Append(@, k)]

\* The continuation of init() has come to one of the steps whose order is
\* examined; the steps of other tasks are not kept
Reached(s, step) ==
  IF s.task.order = <<>> /\ step # "catalogs" THEN s
  ELSE [s EXCEPT !.task.order = Append(@, step)]

\* Assigning select.value: a value that matches no option deselects.
SelAssign(v) == IF v \in Langs THEN v ELSE None

\* select.selectedIndex = (lang === 'cs' ? 1 : 0), options in the order en, cs
SelIndexAssign(lang) == IF lang = "cs" THEN "cs" ELSE "en"

\* getNestedTranslation(key): the key resolves to a non-empty string of the
\* active catalog
Resolves(s, key) ==
  /\ s.currentLang \in DOMAIN s.translations
  /\ key \in s.translations[s.currentLang]

\* The forEach body of updateTranslations for the element keyed e
renderText_firstOnly(s, e) ==
  IF e = "k1" /\ Resolves(s, e) THEN s.currentLang ELSE s.text[e]
renderText(s, e) == IF Resolves(s, e) THEN s.currentLang ELSE s.text[e]

\* LocalizationManager.updateTranslations
updateTranslations(s) ==
  IF s.currentLang \notin DOMAIN s.translations THEN s
  ELSE AddTimer(
         [Reached(s, "render") EXCEPT
            !.renderSnap = Snap(s, s.currentLang, None),
            !.langChangingClass = TRUE,
            !.text = [e \in Elems |-> renderText(s, e)],
            !.content = IF s.content.kind = "loading" /\ Resolves(s, LoadingKey)
                        THEN [kind |-> "loading", lang |-> s.currentLang]
                        ELSE s.content],
         "class")

\* LocalizationManager.updateLanguageSelector (updateLanguageDisplay calls it)
updateLanguageSelector(s) ==
  IF hasSelector
  THEN AddTimer([s EXCEPT !.selValue = SelAssign(s.currentLang)], "sel5")
  ELSE AddTimer(s, "selRetry")

\* localStorage.setItem('theme', theme) in setTheme
persistTheme_skipped(s, theme) == s
persistTheme(s, theme) == [s EXCEPT !.lsTheme = theme]

\* The data-theme attribute and dark-theme class of the root element
applyRootMarker_onlyAdds(s, theme) ==
  [s EXCEPT !.rootDark = @ \/ (theme = "dark")]
applyRootMarker(s, theme) == [s EXCEPT !.rootDark = (theme = "dark")]

\* LocalizationManager.setTheme (updateThemeButton only redraws the icon, and
\* only if the button exists)
setTheme_clearsFlag(s, theme) ==
  LET s1 == persistTheme([s EXCEPT !.currentTheme = theme,
                                   !.languageChanging = FALSE], theme)
  IN Reached(applyRootMarker(s1, theme), "theme")
setTheme(s, theme) ==
  LET s1 == persistTheme([s EXCEPT !.currentTheme = theme], theme)
  IN Reached(applyRootMarker(s1, theme), "theme")

\* this.currentLanguage === 'cs' ? csPath : enPath
PolicyPath_alwaysEnglish(lang) == "en"
PolicyPath(lang) == IF lang = "cs" THEN "cs" ELSE "en"

\* PolicyLoader.loadPolicyContent up to its first await

loadPolicyContent(s) ==
  IF containerKind # "both" THEN s
  ELSE LET shown == [s EXCEPT !.content = [kind |-> "loading", lang |-> Raw]]
           drawn == updateTranslations(shown)
           path == PolicyPath(s.plLang)
       IN [drawn EXCEPT !.inflight[path] = @ + 1,
                        !.task.fetches = @ + 1,
                        !.fetchSnap = Snap(drawn, s.plLang, path)]

\* window.dispatchEvent(new CustomEvent('languageChanged', ...)) with the
\* PolicyLoader's listener run synchronously
dispatchLanguageChanged_silent(s, lang) == s
dispatchLanguageChanged(s, lang) ==
  loadPolicyContent([s EXCEPT !.task.emitted = @ + 1,
                              !.lastNotif = lang,
                              !.notifSnap = Snap(s, lang, None),
                              !.plLang = lang,
                              !.task.received = @ + 1])

\* The two early returns of setLanguage
guardDropped_never(s) == FALSE
guardDropped(s) == s.languageChanging

sameLanguage_never(s, lang) == FALSE
sameLanguage(s, lang) == lang = s.currentLang

\* localStorage.setItem('language', lang) in setLanguage
persistLanguage_skipped(s, lang) == s
persistLanguage(s, lang) == [s EXCEPT !.lsLang = lang]

\* setTimeout(() => { this.languageChanging = false; }, 300) in setLanguage
scheduleReset_skipped(s) == s
scheduleReset(s) == AddTimer(s, "reset")

\* this.updateTranslations() in setLanguage
renderSwitch_toEnglishOnly(s) ==
  IF s.currentLang = "en" THEN updateTranslations(s) ELSE s
renderSwitch(s) == updateTranslations(s)

\* What the page showed when a switch was accepted, for the last two of them
recordTrip(s) ==
  IF s.trip = NoTrip THEN s
  ELSE LET shown == [lang |-> s.currentLang, text |-> s.text]
       IN [s EXCEPT !.trip = IF Len(@) < 2 THEN Append(@, shown)
                              ELSE <<@[2], shown>>]

\* LocalizationManager.setLanguage
setLanguage(s, lang) ==
  IF guardDropped(s) THEN s
  ELSE IF sameLanguage(s, lang) THEN s
  ELSE LET s0 == [Reached(recordTrip(s), "switch") EXCEPT
                    !.languageChanging = TRUE,
                    !.currentLang = lang]
           s1 == [persistLanguage(s0, lang) EXCEPT !.docLang = lang]
           s2 == updateLanguageSelector(s1)
           s3 == renderSwitch(s2)
           s4 == dispatchLanguageChanged(s3, lang)
       IN scheduleReset(s4)

\* LocalizationManager.setupEventListeners
setupEventListeners(s) ==
  LET s1 == [Reached(s, "themeListener") EXCEPT !.themeListeners = @ + 1]
  IN IF hasSelector
     THEN LET s2 == [s1 EXCEPT !.eventListenersSetup = TRUE,
                               !.selValue = SelAssign(s1.currentLang)]
              s3 == updateTranslations(s2)
          IN AddTimer([Reached(s3, "selectorListener") EXCEPT
                         !.selListeners = @ + 1], "sel10")
     ELSE AddTimer(s1, "setupRetry")

\* LocalizationManager.setupLanguageEventListeners (the 100 ms retry)
setupLanguageEventListeners_retrying(s) ==
  IF s.eventListenersSetup THEN s
  ELSE IF hasSelector
  THEN LET s2 == [s EXCEPT !.eventListenersSetup = TRUE,
                           !.selValue = SelAssign(s.currentLang)]
           s3 == updateTranslations(s2)
       IN AddTimer([Reached(s3, "selectorListener") EXCEPT
                      !.selListeners = @ + 1], "sel10")
  ELSE AddTimer(s, "setupRetry")
setupLanguageEventListeners(s) ==
  IF s.eventListenersSetup THEN s
  ELSE IF hasSelector
  THEN LET s2 == [s EXCEPT !.eventListenersSetup = TRUE,
                           !.selValue = SelAssign(s.currentLang)]
           s3 == updateTranslations(s2)
       IN AddTimer([Reached(s3, "selectorListener") EXCEPT
                      !.selListeners = @ + 1], "sel10")
  ELSE s

\* LocalizationManager.finishLoading: requestAnimationFrame(...)
finishLoading(s) == [s EXCEPT !.rafPending = TRUE]

\* init(): setTheme, setupEventListeners, setLanguage(this.currentLang)
initSteps_themeLast(s) ==
  LET s2 == setupEventListeners(s)
      s3 == setLanguage(Reached(s2, "setLanguage"), s2.currentLang)
  IN setTheme(s3, s3.currentTheme)
initSteps(s) ==
  LET s1 == setTheme(s, s.currentTheme)
      s2 == setupEventListeners(s1)
  IN setLanguage(Reached(s2, "setLanguage"), s2.currentLang)

\* LocalizationManager.init after the catalogs have arrived
initContinue(s, cat) ==
  LET s0 == Reached([s EXCEPT !.translations = [l \in Langs |-> cat[l]]],
                    "catalogs")
      s3 == initSteps(s0)
      s4 == updateLanguageSelector(s3)
      s5 == finishLoading(s4)
      s6 == AddTimer(AddTimer(AddTimer(s5, "init50"), "init150"), "init300")
  IN [s6 EXCEPT !.initialized = TRUE]

\* ------------------------------------------------------------------ actions
\* DOMContentLoaded: both scripts' listeners run, localizationManager.init()
\* up to its await and PolicyLoader.loadPolicyContent up to its await.
DOMContentLoaded ==
  /\ phase = "loading"
  /\ phase' = "ready"
  /\ initPc' = IF initialized THEN initPc ELSE "fetching"
  /\ catalogFetches' = IF initialized THEN catalogFetches
                        ELSE catalogFetches + 1
  /\ Commit(loadPolicyContent([St EXCEPT !.task.pageLoads = @ + 1]))
  /\ UNCHANGED <<envVars, initAwaiting, initRuns, winInitialLanguage,
                 windowLoaded>>

\* init() resumes with both catalogs parsed
CatalogsLoaded ==
  /\ initPc = "fetching"
  /\ \E cat \in CatalogChoices : Commit(initContinue(St, cat))
  /\ initPc' = "done"
  /\ initRuns' = initRuns + 1
  /\ UNCHANGED <<envVars, initAwaiting, catalogFetches, winInitialLanguage,
                 phase, windowLoaded>>

\* The catch block of init()
initCatch_unmarked(s) == s
initCatch(s) == [s EXCEPT !.initialized = TRUE]

\* init() resumes in its catch block: a fetch rejected, or a body was not
\* JSON (the English catalog may already have been stored)
CatalogsFailed ==
  /\ initPc = "fetching"
  /\ \E partial \in BOOLEAN, cat \in CatalogChoices :
       Commit(initCatch([St EXCEPT !.translations =
                                     IF partial
                                     THEN [l \in {"en"} |-> cat.en]
                                     ELSE @]))
  /\ initPc' = "done"
  /\ UNCHANGED <<envVars, initVars, winInitialLanguage, phase, windowLoaded>>

\* Another script calls window.localizationManager.init(): it returns at
\* once when the manager is initialized, and issues the catalog fetches and
\* awaits them otherwise
InitCall ==
  /\ phase = "ready"
  /\ initAwaiting < MaxInitCalls
  /\ initAwaiting' = IF initialized THEN initAwaiting ELSE initAwaiting + 1
  /\ catalogFetches' = IF initialized THEN catalogFetches
                        ELSE catalogFetches + 1
  /\ Commit(St)
  /\ UNCHANGED <<envVars, initRuns, winInitialLanguage, phase, initPc,
                 windowLoaded>>

\* Such a call resumes with both catalogs parsed
InitCallLoaded ==
  /\ initAwaiting > 0
  /\ \E cat \in CatalogChoices : Commit(initContinue(St, cat))
  /\ initAwaiting' = initAwaiting - 1
  /\ initRuns' = initRuns + 1
  /\ UNCHANGED <<envVars, catalogFetches, winInitialLanguage, phase, initPc,
                 windowLoaded>>

\* Such a call resumes in its catch block
InitCallFailed ==
  /\ initAwaiting > 0
  /\ Commit(initCatch(St))
  /\ initAwaiting' = initAwaiting - 1
  /\ UNCHANGED <<envVars, catalogFetches, initRuns, winInitialLanguage, phase,
                 initPc, windowLoaded>>

\* window 'load': schedules one more updateLanguageSelector
WindowLoad ==
  /\ phase = "ready"
  /\ ~windowLoaded
  /\ windowLoaded' = TRUE
  /\ Commit(AddTimer(St, "loadUpd"))
  /\ UNCHANGED <<envVars, initVars, winInitialLanguage, phase, initPc>>

\* The user picks another option of the language selector: the browser
\* changes select.value and runs the change listener.
SelectorChange(v) ==
  /\ hasSelector
  /\ selListeners > 0
  /\ v # selValue
  /\ LET s1 == [St EXCEPT !.selValue = v]
     IN Commit(IF v # s1.currentLang THEN setLanguage(s1, v) ELSE s1)
  /\ UNCHANGED <<envVars, initVars, winInitialLanguage, phase, initPc,
                 windowLoaded>>

\* One click listener of the theme button
themeClickListener(s) ==
  setTheme(s, IF s.currentTheme = "light" THEN "dark" ELSE "light")

RECURSIVE runClickListeners(_, _)
runClickListeners(s, n) ==
  IF n = 0 THEN s ELSE runClickListeners(themeClickListener(s), n - 1)

\* The user clicks the theme button: every attached listener runs
ThemeClick ==
  /\ themeListeners > 0
  /\ Commit(runClickListeners(St, themeListeners))
  /\ UNCHANGED <<envVars, initVars, winInitialLanguage, phase, initPc,
                 windowLoaded>>

\* window.localizationManager.setLanguage(lang) called by another script,
\* once init() has completed
SetLanguageCall(lang) ==
  /\ initPc = "done"
  /\ Commit(setLanguage(St, lang))
  /\ UNCHANGED <<envVars, initVars, winInitialLanguage, phase, initPc,
                 windowLoaded>>

\* window.localizationManager.setTheme(theme) called by another script,
\* once init() has completed
SetThemeCall(theme) ==
  /\ initPc = "done"
  /\ Commit(setTheme(St, theme))
  /\ UNCHANGED <<envVars, initVars, winInitialLanguage, phase, initPc,
                 windowLoaded>>

\* The callback of setLanguage's 300 ms timer
resetFlag_kept(s) == s
resetFlag(s) == [s EXCEPT !.languageChanging = FALSE]

\* What a timer callback does
TimerEffect(s, k) ==
  CASE k = "reset" -> resetFlag(s)
    [] k = "class" -> [s EXCEPT !.langChangingClass = FALSE]
    [] k = "sel5" -> IF s.selValue # s.currentLang
                     THEN [s EXCEPT !.selValue = SelIndexAssign(s.currentLang)]
                     ELSE s
    [] k = "sel10" -> IF s.selValue # s.currentLang
                      THEN [s EXCEPT !.selValue = SelAssign(s.currentLang)]
                      ELSE s
    [] k = "selRetry" -> s
    [] k = "setupRetry" -> setupLanguageEventListeners(s)
    [] k \in {"init50", "init150", "init300"} -> updateLanguageSelector(s)
    [] k = "loadUpd" -> updateLanguageSelector(s)
    [] k = "plSel" -> IF hasSelector
                      THEN [s EXCEPT !.selValue = winInitialLanguage]
                      ELSE s

\* The event loop runs timers in the order they fall due. timers holds, in
\* scheduling order, the timers each earlier task left pending. A timer can be
\* the next one due unless a timer of the same task has a shorter delay (or
\* the same delay and was set first) or a timer of an earlier task has a
\* delay that is not longer.
RemoveAt(q, i) == [j \in 1..(Len(q) - 1) |-> IF j < i THEN q[j] ELSE q[j + 1]]

Fireable(ts, g, i) ==
  LET k == ts[g][i]
  IN /\ \A j \in 1..Len(ts[g]) :
          j # i => ~(\/ Delay[ts[g][j]] < Delay[k]
                    \/ (Delay[ts[g][j]] = Delay[k] /\ j < i))
     /\ \A h \in 1..(g - 1) : \A j \in 1..Len(ts[h]) :
          Delay[ts[h][j]] > Delay[k]

TakeTimer(ts, g, i) ==
  IF Len(ts[g]) = 1 THEN RemoveAt(ts, g)
  ELSE [ts EXCEPT ![g] = RemoveAt(@, i)]

FireTimer(g, i) ==
  /\ g \in 1..Len(timers)
  /\ i \in 1..Len(timers[g])
  /\ Fireable(timers, g, i)
  /\ Commit(TimerEffect([St EXCEPT !.timers = TakeTimer(timers, g, i)],
                        timers[g][i]))
  /\ UNCHANGED <<envVars, initVars, winInitialLanguage, phase, initPc,
                 windowLoaded>>

\* The animation frame requested by finishLoading; frames are not ordered
\* with timers.
AnimationFrame ==
  /\ rafPending
  /\ Commit([St EXCEPT !.rafPending = FALSE, !.bodyLoading = FALSE])
  /\ UNCHANGED <<envVars, initVars, winInitialLanguage, phase, initPc,
                 windowLoaded>>

TimerFires ==
  \/ \E g \in 1..Len(timers) : \E i \in 1..Len(timers[g]) : FireTimer(g, i)
  \/ AnimationFrame

\* ------------------------------------------------ the policy formatter
\* A line is a sequence of characters and a document a sequence of lines, as
\* text.split('\n') returns it. Three runs of characters are written as one
\* element each, because the formatter matches them only as a whole: the
\* scheme of an URL, the emphasis marker, and a word of 80 lower-case
\* letters. "bullet" and "endash" stand for the characters U+2022 and U+2013.
Http == "http://"
Bold == "**"
LongWord == "a{80}"
Width(c) ==
  CASE c = Http -> 7
    [] c = Bold -> 2
    [] c = LongWord -> 80
    [] OTHER -> 1

\* String.length
RECURSIVE length(_)
length(line) ==
  IF line = <<>> THEN 0 ELSE Width(Head(line)) + length(Tail(line))

\* \s of the regular expressions, and what trim() removes
Whitespace == {" "}

\* String.trim
RECURSIVE trimStart(_)
trimStart(line) ==
  IF line # <<>> /\ Head(line) \in Whitespace
  THEN trimStart(Tail(line)) ELSE line
RECURSIVE trimEnd(_)
trimEnd(line) ==
  IF line # <<>> /\ line[Len(line)] \in Whitespace
  THEN trimEnd(SubSeq(line, 1, Len(line) - 1)) ELSE line
trim(line) == trimEnd(trimStart(line))

\* String.startsWith, endsWith, includes, substring
startsWith(line, part) ==
  Len(line) >= Len(part) /\ SubSeq(line, 1, Len(part)) = part
endsWith(line, c) == line # <<>> /\ line[Len(line)] = c
includes(line, part) ==
  \E i \in 1..Len(line) :
    i + Len(part) - 1 <= Len(line) /\
    SubSeq(line, i, i + Len(part) - 1) = part
substring(line, n) == SubSeq(line, n + 1, Len(line))

\* String.toUpperCase
UpperOf(c) ==
  CASE c = "a" -> "A" [] c = "b" -> "B" [] c = "c" -> "C"
    [] c = "n" -> "N" [] c = "o" -> "O" [] c = "t" -> "T"
    [] c = Http -> "HTTP://"
    [] c = LongWord -> "A{80}"
    [] OTHER -> c
toUpperCase(line) == [i \in 1..Len(line) |-> UpperOf(line[i])]

\* The least index after i where c stands, 0 if there is none
IndexAfter(line, i, c) ==
  LET found == {k \in (i + 1)..Len(line) : line[k] = c}
  IN IF found = {} THEN 0
     ELSE CHOOSE k \in found : \A j \in found : k <= j

\* .replace(/\*\*(.*?)\*\*/g, '<strong>$1</strong>')
RECURSIVE replaceBold(_)
replaceBold(line) ==
  LET open == IndexAfter(line, 0, Bold)
      close == IF open = 0 THEN 0 ELSE IndexAfter(line, open, Bold)
  IN IF close = 0 THEN line
     ELSE SubSeq(line, 1, open - 1) \o <<"<strong>">> \o
          SubSeq(line, open + 1, close - 1) \o <<"</strong>">> \o
          replaceBold(SubSeq(line, close + 1, Len(line)))

\* /\[([^\]]+)\]\((https?:\/\/[^)]+)\)/ matched at index i: where the label
\* ends and where the match ends, 0 and 0 if it does not match there
linkMatch(line, i) ==
  LET none == [label |-> 0, end |-> 0]
      k == IndexAfter(line, i, "]")
      m == IF k = 0 THEN 0 ELSE IndexAfter(line, k + 2, ")")
  IN IF line[i] # "[" \/ k < i + 2 THEN none
     ELSE IF k + 2 > Len(line) THEN none
     ELSE IF line[k + 1] # "(" \/ line[k + 2] # Http THEN none
     ELSE IF m < k + 4 THEN none
     ELSE [label |-> k, end |-> m]

\* .test of that expression
hasHiddenLinks(line) ==
  \E i \in 1..Len(line) : linkMatch(line, i).end > 0

\* The replacement '<a href="$2" target="_blank" ...>$1</a>'
anchor(url, label) ==
  <<"<a href=\"">> \o url \o
  <<"\"", " ",
    "target=\"_blank\" rel=\"noopener noreferrer\" class=\"text-link\">">> \o
  label \o <<"</a>">>

\* .replace of that expression, every match
RECURSIVE replaceLinks(_)
replaceLinks(line) ==
  LET starts == {i \in 1..Len(line) : linkMatch(line, i).end > 0}
  IN IF starts = {} THEN line
     ELSE LET i == CHOOSE k \in starts : \A j \in starts : k <= j
              mt == linkMatch(line, i)
          IN SubSeq(line, 1, i - 1) \o
             anchor(SubSeq(line, mt.label + 2, mt.end - 1),
                    SubSeq(line, i + 1, mt.label - 1)) \o
             replaceLinks(SubSeq(line, mt.end + 1, Len(line)))

\* .replace(/(https?:\/\/[^\s]+)/g, '<a href="$1" ...>$1</a>')
RECURSIVE replaceUrls(_)
replaceUrls(line) ==
  LET starts == {i \in 1..(Len(line) - 1) :
                   line[i] = Http /\ line[i + 1] \notin Whitespace}
  IN IF starts = {} THEN line
     ELSE LET i == CHOOSE k \in starts : \A j \in starts : k <= j
              gaps == {k \in (i + 1)..Len(line) : line[k] \in Whitespace}
              end == IF gaps = {} THEN Len(line)
                     ELSE (CHOOSE k \in gaps : \A j \in gaps : k <= j) - 1
              url == SubSeq(line, i, end)
          IN SubSeq(line, 1, i - 1) \o anchor(url, url) \o
             replaceUrls(SubSeq(line, end + 1, Len(line)))

\* if (!hasHiddenLinks): whether the bare URLs of a line are linked
autolinkAllowed_always(hidden) == TRUE
autolinkAllowed(hidden) == ~hidden

\* The inline formatting of a list item or a paragraph
formatInline(line) ==
  LET bolded == replaceBold(line)
      linked == replaceLinks(bolded)
  IN IF autolinkAllowed(hasHiddenLinks(bolded))
     THEN replaceUrls(linked) ELSE linked

\* The titles of the knownHeadlines list that the documents tried here use
knownHeadlines == {<<"C", "o", "n", "t", "a", "c", "t">>}
isKnownHeadline(line) == line \in knownHeadlines

\* The character class of the capitals test
CapitalLetters == {"A", "B", "C", "D", "N", "O", "T"}
AllCapsCharacters ==
  CapitalLetters \cup Whitespace \cup {"&", "(", ")", "/", "endash", "-"}

\* const isAllCaps
isAllCaps_lettersOnly(line) ==
  /\ line = toUpperCase(line)
  /\ length(line) > 3
  /\ \A i \in 1..Len(line) : line[i] \in CapitalLetters
isAllCaps(line) ==
  /\ line = toUpperCase(line)
  /\ length(line) > 3
  /\ line # <<>>
  /\ \A i \in 1..Len(line) : line[i] \in AllCapsCharacters

\* const isStandaloneHeading
isStandaloneHeading(prevLine, nextLine) == prevLine = <<>> /\ nextLine = <<>>

\* /^\d/
Digits == {"1"}

\* const looksLikeHeading
looksLikeHeading_anyStart(line) ==
  /\ length(line) < 80
  /\ length(line) > 2
  /\ ~endsWith(line, ".")
  /\ ~endsWith(line, ",")
  /\ ~includes(line, <<"@">>)
  /\ ~includes(line, <<Http>>)
  /\ ~includes(line, <<"[">>)
  /\ ~includes(line, <<"]", "(">>)
  /\ ~includes(line, <<":">>)
looksLikeHeading(line) ==
  /\ length(line) < 80
  /\ length(line) > 2
  /\ ~endsWith(line, ".")
  /\ ~endsWith(line, ",")
  /\ ~includes(line, <<"@">>)
  /\ ~includes(line, <<Http>>)
  /\ ~includes(line, <<"[">>)
  /\ ~includes(line, <<"]", "(">>)
  /\ ~includes(line, <<":">>)
  /\ ~(line # <<>> /\ Head(line) \in Digits)

\* The test of the bullet branch
isBullet(line) ==
  startsWith(line, <<"bullet", " ">>) \/ startsWith(line, <<"-", " ">>)

\* if (inList) html += '</ul>\n', after the loop
closeOpenList_never(html, inList) == html
closeOpenList(html, inList) ==
  IF inList THEN html \o <<"</ul>">> ELSE html

\* The loop without the `continue` that ends the bullet branch: a bullet line
\* falls through to the heading and paragraph branches as well
RECURSIVE formatLines_noContinue(_, _, _, _)
formatLines_noContinue(lines, i, html, inList) ==
  IF i > Len(lines) THEN closeOpenList(html, inList)
  ELSE
    LET trimmedLine == trim(lines[i])
        prevLine == IF i > 1 THEN trim(lines[i - 1]) ELSE <<>>
        nextLine == IF i < Len(lines) THEN trim(lines[i + 1]) ELSE <<>>
        closed == IF inList THEN html \o <<"</ul>">> ELSE html
        item == IF isBullet(trimmedLine)
                THEN (IF ~inList THEN html \o <<"<ul>">> ELSE html) \o
                     <<"<li>">> \o
                     formatInline(substring(trimmedLine, 2)) \o
                     <<"</li>", "</ul>">>
                ELSE closed
    IN IF trimmedLine = <<>>
       THEN formatLines_noContinue(lines, i + 1, closed, FALSE)
       ELSE IF \/ isKnownHeadline(trimmedLine)
               \/ isAllCaps(trimmedLine)
               \/ (isStandaloneHeading(prevLine, nextLine) /\
                   looksLikeHeading(trimmedLine))
       THEN formatLines_noContinue(lines, i + 1,
                        item \o <<"<h3>">> \o trimmedLine \o <<"</h3>">>,
                        FALSE)
       ELSE formatLines_noContinue(lines, i + 1,
                        item \o <<"<p>">> \o formatInline(trimmedLine) \o
                        <<"</p>">>,
                        FALSE)

\* The loop of formatPolicyContent from line i on; each closing tag stands
\* for the tag and the line feed after it
RECURSIVE formatLines(_, _, _, _)
formatLines(lines, i, html, inList) ==
  IF i > Len(lines) THEN closeOpenList(html, inList)
  ELSE
    LET trimmedLine == trim(lines[i])
        prevLine == IF i > 1 THEN trim(lines[i - 1]) ELSE <<>>
        nextLine == IF i < Len(lines) THEN trim(lines[i + 1]) ELSE <<>>
        closed == IF inList THEN html \o <<"</ul>">> ELSE html
    IN IF trimmedLine = <<>>
       THEN formatLines(lines, i + 1, closed, FALSE)
       ELSE IF isBullet(trimmedLine)
       THEN formatLines(lines, i + 1,
                        (IF ~inList THEN html \o <<"<ul>">> ELSE html) \o
                        <<"<li>">> \o
                        formatInline(substring(trimmedLine, 2)) \o
                        <<"</li>">>,
                        TRUE)
       ELSE IF \/ isKnownHeadline(trimmedLine)
               \/ isAllCaps(trimmedLine)
               \/ (isStandaloneHeading(prevLine, nextLine) /\
                   looksLikeHeading(trimmedLine))
       THEN formatLines(lines, i + 1,
                        closed \o <<"<h3>">> \o trimmedLine \o <<"</h3>">>,
                        FALSE)
       ELSE formatLines(lines, i + 1,
                        closed \o <<"<p>">> \o formatInline(trimmedLine) \o
                        <<"</p>">>,
                        FALSE)

\* PolicyLoader.formatPolicyContent, on the lines of the text
formatPolicyContent_byLanguage(lines) ==
  IF plLang = "cs" THEN <<>> ELSE formatLines(lines, 1, <<>>, FALSE)
formatPolicyContent(lines) == formatLines(lines, 1, <<>>, FALSE)

\* The lines the documents tried are made of
SampleLines ==
  {<<>>,
   <<" ">>,
   <<"bullet", " ", "a">>,
   <<"-", " ", "A", "B">>,
   <<"-", " ", Bold, "a", Bold, " ", Http, "b">>,
   <<"A", "B", " ", "C">>,
   <<"A", "B", "C">>,
   <<"a", "b">>,
   <<" ", "a", "b", "c">>,
   <<"a", "b", ".">>,
   <<"a", "b", "!">>,
   <<"C", "o", "n", "t", "a", "c", "t">>,
   <<"1", "a", "b">>,
   <<"a", ":", "b">>,
   <<LongWord>>,
   <<"[", "a", "]", "(", Http, "b", ")">>,
   <<"[", "a", "]", "(", Http, "b", ")", " ", Http, "c">>,
   <<Bold, Http, "b", Bold>>}
MaxLines == 3
MaxRuns == 2
Documents == UNION {[1..n -> SampleLines] : n \in 1..MaxLines}

\* The documents formatted between the events of a page
PurityDocuments ==
  {<< <<"C", "o", "n", "t", "a", "c", "t">>, <<"a", "b", ".">> >>,
   << <<"-", " ", Bold, "a", Bold, " ", Http, "b">> >>}

\* A document, before formatPolicyContent is called on it
BeforeFormat(documents) ==
  \E doc \in documents :
    probe = [fn |-> "formatPolicyContent", doc |-> doc, runs |-> <<>>]

\* One call of formatPolicyContent on the document, with the language the
\* page had at the time
FormatCall ==
  /\ probe.fn = "formatPolicyContent"
  /\ Len(probe.runs) < MaxRuns
  /\ probe' = [probe EXCEPT
                 !.runs = Append(@, [html |-> formatPolicyContent(probe.doc),
                                     lang |-> plLang,
                                     saved |-> lsLang])]
  /\ UNCHANGED pageVars

\* ------------------------------------------- script.js: tabs, mobile menu
MaxTabs == 2
\* The .tab-button elements of the page; the ids their data-tab can name
TabButtons == 1..MaxTabs
PanelIds == {"panel1", "panel2"}
\* What a click can hit besides a tab button: the menu toggle, a .nav-link
\* inside the navigation, the navigation next to its links, the .controls,
\* the .language-switch, anything else of the page
MenuTargets == {"toggle", "navLink", "navigation", "controls",
                "languageSwitch", "elsewhere"}
\* href of a .nav-link: an anchor of the page or another page
Hrefs == {"#apps", "index.html"}
NoClick == [target |-> "none", tab |-> 0]

\* The click listener of a tab button: every marker is removed, the button
\* is marked, then the panel its data-tab names; getElementById returns null
\* for a panel that is missing and the listener ends with a TypeError there
tabClickListener(page, b) ==
  [page EXCEPT !.activeButtons = {b},
               !.activePanels = IF page.dataTab[b] \in page.panels
                                THEN {page.dataTab[b]} ELSE {}]

\* The click listener of the menu toggle
toggleClickListener(page) ==
  [page EXCEPT !.navOpen = ~@, !.toggleActive = ~@]

\* navigation.classList.remove('mobile-active');
\* mobileToggle.classList.remove('active')
closeMenu(page) == [page EXCEPT !.navOpen = FALSE, !.toggleActive = FALSE]

\* The click listener of a .nav-link (preventDefault changes nothing here)
navLinkClickListener(page, href) == closeMenu(page)

\* The click listener of the document, for a click that bubbled up to it
documentClickListener(page, target) ==
  IF target \notin {"navigation", "navLink", "toggle", "controls",
                    "languageSwitch"}
  THEN closeMenu(page) ELSE page

\* The listeners initializeMobileMenu attached, if it found the toggle and
\* the navigation, in the order a click on the target runs them
menuClick(page, target, href) ==
  IF ~page.hasMenu THEN page
  ELSE documentClickListener(
         IF target = "toggle" THEN toggleClickListener(page)
         ELSE IF target = "navLink" THEN navLinkClickListener(page, href)
         ELSE page,
         target)

\* A page after the DOMContentLoaded listener of script.js ran: tab buttons
\* naming panels that may be missing, the first tab shown, the menu closed
BeforeClicks ==
  \E dataTab \in [TabButtons -> PanelIds], panels \in SUBSET PanelIds,
     hasMenu \in BOOLEAN :
    probe = [fn |-> "script", dataTab |-> dataTab, panels |-> panels,
             activeButtons |-> {1},
             activePanels |-> {dataTab[1]} \cap panels,
             hasMenu |-> hasMenu, navOpen |-> FALSE, toggleActive |-> FALSE,
             clickedTab |-> 0, last |-> NoClick]

\* The user clicks tab button b: its listener stops the propagation, the
\* listener of the document does not run
TabClick(b) ==
  /\ probe.fn = "script"
  /\ probe' = [tabClickListener(probe, b) EXCEPT
                 !.clickedTab = b,
                 !.last = [target |-> "tabButton", tab |-> b]]
  /\ UNCHANGED pageVars

\* The user clicks the menu toggle, a .nav-link or another place of the page
MenuClick(target, href) ==
  /\ probe.fn = "script"
  /\ probe' = [menuClick(probe, target, href) EXCEPT
                 !.last = [target |-> target, tab |-> 0]]
  /\ UNCHANGED pageVars

\* How the awaited part of loadPolicyContent can end: the document was
\* fetched and formatted, fetch() rejected, the response was not ok, or
\* formatPolicyContent threw
FetchOutcomes == {"ok", "rejected", "status", "formatThrows"}

\* Policy documents as text.split('\n') sees them: the empty file, a file of
\* blank lines, a file with two lines of text
PolicyDocs ==
  {<< <<>> >>, << <<>>, <<>> >>, << <<"a", "b", "c">>, <<>>, <<"a", "b", "c">> >>}

\* What a settled load resumes with
FetchResults ==
  {[outcome |-> "ok", doc |-> d] : d \in PolicyDocs} \cup
  {[outcome |-> o, doc |-> <<>>] : o \in FetchOutcomes \ {"ok"}}

\* The catch block's choice between the two hard-coded messages
ErrorMessage_alwaysEnglish(lang) == "en"
ErrorMessage(lang) == IF lang = "cs" THEN "cs" ELSE "en"

\* A policy fetch settles and loadPolicyContent resumes; every failure ends
\* in the catch block, which writes the message and returns normally
FetchSettled(path, r) ==
  /\ inflight[path] > 0
  /\ LET s1 == [St EXCEPT !.inflight[path] = @ - 1]
     IN Commit([s1 EXCEPT !.content =
                  IF r.outcome = "ok"
                  THEN [kind |-> IF formatPolicyContent(r.doc) = <<>>
                                 THEN "empty" ELSE "doc",
                        lang |-> path]
                  ELSE [kind |-> "error", lang |-> ErrorMessage(s1.plLang)]])
  /\ UNCHANGED <<envVars, initVars, winInitialLanguage, phase, initPc,
                 windowLoaded>>

\* ------------------------------------------------- the render pass, one key
\* JavaScript values as far as the key walk meets them
JsUndefined == [t |-> "undefined"]
JsNull == [t |-> "null"]
JsFunction == [t |-> "function"]
JsString(v) == [t |-> "string", v |-> v]
JsNumber(n) == [t |-> "number", v |-> n]
JsObject(f) == [t |-> "object", f |-> f]

\* the value in a condition
Truthy(v) ==
  CASE v.t = "string" -> v.v # ""
    [] v.t = "number" -> v.v # 0
    [] v.t \in {"object", "function"} -> TRUE
    [] OTHER -> FALSE

\* translation[k]: own properties, then what the prototypes provide
GetProperty(v, k) ==
  CASE v.t = "object" ->
         IF k \in DOMAIN v.f THEN v.f[k]
         ELSE IF k = "constructor" THEN JsFunction ELSE JsUndefined
    [] v.t = "string" ->
         IF k = "length" THEN JsNumber(IF v.v = "" THEN 0 ELSE 1)
         ELSE IF k = "constructor" THEN JsFunction ELSE JsUndefined
    [] v.t = "function" ->
         IF k = "length" THEN JsNumber(1)
         ELSE IF k = "constructor" THEN JsFunction ELSE JsUndefined
    [] v.t = "number" ->
         IF k = "constructor" THEN JsFunction ELSE JsUndefined
    [] OTHER -> JsUndefined

\* LocalizationManager.getNestedTranslation: keys is key.split('.')
RECURSIVE getNestedTranslation(_, _)
getNestedTranslation(translation, keys) ==
  IF keys = <<>> THEN translation
  ELSE IF Truthy(translation) /\ Truthy(GetProperty(translation, Head(keys)))
  THEN getNestedTranslation(GetProperty(translation, Head(keys)), Tail(keys))
  ELSE JsNull

\* What assigning a value to textContent or placeholder stores
ToDomString(v) ==
  CASE v.t = "string" -> v.v
    [] v.t = "number" -> IF v.v = 0 THEN "0" ELSE "1"
    [] v.t = "object" -> "[object Object]"
    [] v.t = "function" -> "function () { [native code] }"
    [] OTHER -> v.t

\* The forEach body of updateTranslations for one element
renderElement(el, catalog, keys) ==
  LET translation == getNestedTranslation(catalog, keys)
  IN IF Truthy(translation)
     THEN IF el.tag = "INPUT" /\ el.type # "submit"
          THEN [el EXCEPT !.placeholder = ToDomString(translation)]
          ELSE [el EXCEPT !.textContent = ToDomString(translation)]
     ELSE el

\* The catalog { "a": { "b": "X", "e": "" } } and the keys tried on it
ProbeCatalog ==
  JsObject([k \in {"a"} |->
              JsObject([j \in {"b", "e"} |->
                          JsString(IF j = "b" THEN "X" ELSE "")])])
Segments == {"a", "b", "c", "e", "z", "length", "constructor"}
MaxSegments == 3
ProbeKeys ==
  UNION {[1..n -> Segments] : n \in 1..MaxSegments}
ProbeElements ==
  {[tag |-> "P", type |-> "", textContent |-> "old", placeholder |-> ""],
   [tag |-> "INPUT", type |-> "text", textContent |-> "",
    placeholder |-> "old"],
   [tag |-> "INPUT", type |-> "submit", textContent |-> "old",
    placeholder |-> ""]}

\* One element with one key, before the render pass reaches it
BeforeRender ==
  \E keys \in ProbeKeys, el \in ProbeElements :
    probe = [fn |-> "getNestedTranslation", keys |-> keys, before |-> el,
             el |-> el, done |-> FALSE]

\* The render pass reaches the element
RenderElement ==
  /\ probe.fn = "getNestedTranslation"
  /\ ~probe.done
  /\ probe' = [probe EXCEPT
                 !.el = renderElement(probe.el, ProbeCatalog, probe.keys),
                 !.done = TRUE]
  /\ UNCHANGED pageVars

\* ------------------------------------------------------------------ claims
\* A step in which setLanguage(l) is called, by another script or by the
\* selector's change listener
SetLanguageStep(l) == SetLanguageCall(l) \/ SelectorChange(l)

TimerPending(k) ==
  \E g \in 1..Len(timers) : \E i \in 1..Len(timers[g]) : timers[g][i] = k

\* C1: an accepted setLanguage(lang) (flag clear, lang not the active
\* language) leaves the active language, the persisted language and the
\* document's lang attribute at lang and emits exactly one languageChanged
\* notification carrying lang.
C1_AcceptedSwitch ==
  [][\A l \in Langs :
       (~languageChanging /\ l # currentLang /\ SetLanguageStep(l)) =>
         /\ currentLang' = l
         /\ lsLang' = l
         /\ docLang' = l
         /\ task'.emitted = 1
         /\ lastNotif' = l
         /\ notifSnap'.lang = l]_vars

C1_Witness ==
  /\ task.emitted = 1
  /\ languageChanging
  /\ currentLang = "cs"
  /\ lastNotif = "cs"

\* C2: a setLanguage call that arrives while the re-entrancy flag is set is
\* dropped: language, persisted language, rendered text, flag and timers stay
\* as they are and nothing is emitted or fetched, and the language never
\* changes in a step that is not itself an accepted setLanguage call (nothing
\* is queued).
C2_DroppedCall ==
  [][/\ \A l \in Langs :
          (languageChanging /\ SetLanguageStep(l)) =>
            /\ UNCHANGED <<currentLang, lsLang, docLang, text, content,
                           languageChanging, lastNotif, inflight, plLang,
                           timers>>
            /\ task' = NoTask
     /\ (currentLang' # currentLang) =>
          /\ ~languageChanging
          /\ \E l \in Langs : l = currentLang' /\ SetLanguageStep(l)]_vars

\* The selector shows a language the user picked while the flag was set and
\* the manager kept the other one.
C2_Witness ==
  /\ languageChanging
  /\ selListeners > 0
  /\ winInitialLanguage = None
  /\ currentLang \in Langs
  /\ selValue \in Langs
  /\ selValue # currentLang

\* C3: setLanguage called with the active language is a no-op in every
\* state, from another script and from init(): nothing is emitted, the
\* persisted language is not rewritten, the flag is not set and no reset
\* timer is scheduled.
C3_SameLanguageNoOp ==
  [][/\ \A l \in Langs :
          (l = currentLang /\ SetLanguageCall(l)) =>
            (task' = NoTask /\ UNCHANGED <<lsLang, currentLang, docLang, text,
                                           content, languageChanging, lastNotif,
                                           inflight, plLang, timers, selValue>>)
     /\ CatalogsLoaded =>
          /\ UNCHANGED <<currentLang, lsLang, docLang, lastNotif,
                         languageChanging, inflight>>
          /\ [task' EXCEPT !.order = <<>>] = NoTask
          /\ ~TimerPending("reset")']_vars

\* init() has called setLanguage(currentLang) and nothing was emitted
C3_Witness ==
  /\ initPc = "done"
  /\ DOMAIN translations = Langs
  /\ lastNotif = None
  /\ task = NoTask
  /\ ~languageChanging
  /\ ~TimerPending("reset")

\* C4: after an accepted setLanguage the flag is eventually cleared, no
\* switch is accepted while it is set, and a setLanguage to another language
\* issued once it is clear is accepted.
C4_FlagCleared ==
  /\ languageChanging ~> ~languageChanging
  /\ [][/\ languageChanging => currentLang' = currentLang
         /\ \A l \in Langs :
              (~languageChanging /\ l # currentLang /\ SetLanguageStep(l)) =>
                (currentLang' = l /\ languageChanging')]_vars

\* nothing was stored at load and en was active: en is stored only by a
\* switch back to it, accepted after the flag of the switch away was cleared
C4_Witness ==
  /\ task.emitted = 1
  /\ languageChanging
  /\ currentLang = "en"
  /\ lsLang = "en"

SnapPersisted(x) == x.lang # None => x.persisted = x.lang
SnapPersistedOrDefault(x) ==
  x.lang # None =>
    (x.persisted = x.lang \/ (x.persisted = None /\ x.lang = "en"))

\* C6 as stated: when a notification is dispatched, a render pass starts or
\* a policy fetch is issued, the persisted language equals the language used.
C6_Original ==
  /\ SnapPersisted(notifSnap)
  /\ SnapPersisted(renderSnap)
  /\ SnapPersisted(fetchSnap)

\* C6 amended: ... the persisted language equals the language used, or
\* nothing is persisted yet and the language used is the default en.
C6_PersistedBeforeUse ==
  /\ SnapPersistedOrDefault(notifSnap)
  /\ SnapPersistedOrDefault(renderSnap)
  /\ SnapPersistedOrDefault(fetchSnap)

\* a switch to Czech was notified, rendered and fetched with "cs" persisted
C6_Witness ==
  /\ notifSnap.lang = "cs" /\ notifSnap.persisted = "cs"
  /\ renderSnap.lang = "cs" /\ renderSnap.persisted = "cs"
  /\ fetchSnap.lang = "cs" /\ fetchSnap.persisted = "cs"
  /\ task.emitted = 1

\* C7: in every reachable state the active language is a supported code and
\* the active theme is light or dark.
C7_SupportedValues ==
  /\ currentLang \in Langs
  /\ currentTheme \in Themes

InBothCatalogs(e) ==
  /\ DOMAIN translations = Langs
  /\ e \in translations["en"]
  /\ e \in translations["cs"]

AcceptedSwitch(l) ==
  ~languageChanging /\ l # currentLang /\ SetLanguageStep(l)

\* C8 as stated, with both catalogs loaded: no state shows elements in
\* different languages, and after an accepted setLanguage every translatable
\* element shows the new language.
C8_Original ==
  [][DOMAIN translations = Langs =>
       /\ \A e1, e2 \in Elems :
            (text'[e1] \in Langs /\ text'[e2] \in Langs) =>
              text'[e1] = text'[e2]
       /\ \A l \in Langs :
            AcceptedSwitch(l) => \A e \in Elems : text'[e] = l]_vars

\* C8 amended: elements whose key resolves in both catalogs never show
\* different languages, and after an accepted setLanguage every element
\* whose key resolves in the new language's catalog shows the new language.
C8_AtomicSwitch ==
  [][/\ \A e1, e2 \in Elems :
          (InBothCatalogs(e1)' /\ InBothCatalogs(e2)') => text'[e1] = text'[e2]
     /\ \A l \in Langs :
          AcceptedSwitch(l) =>
            \A e \in Elems :
              (l \in DOMAIN translations /\ e \in translations[l]) =>
                text'[e] = l]_vars

\* an accepted switch from English re-rendered in Czech the elements the
\* Czech catalog resolves and left the other one in English
C8_Witness ==
  /\ task.emitted = 1
  /\ languageChanging
  /\ currentLang = "cs"
  /\ InBothCatalogs("k1") /\ InBothCatalogs("k3")
  /\ text["k1"] = "cs" /\ text["k3"] = "cs"
  /\ text["k2"] = "en"

\* C9: once every policy fetch has settled, the container shows the document
\* or error message of the language that is then active.
C9_ContainerInSync ==
  (/\ \A p \in Langs : inflight[p] = 0
   /\ content.kind \in {"doc", "error"}) =>
    content.lang = (IF currentLang = "cs" THEN "cs" ELSE "en")

\* C10: with both paths declared, every task starts one fetch for the page
\* load it handles (there is one, the DOMContentLoaded task) and one for each
\* notification the Formatter receives in it (each notification emitted is
\* received), each for the path of the language active at that moment (Czech
\* path for cs, English path otherwise); without a container none is started.
C10_OneFetchPerTrigger ==
  /\ task.pageLoads <= 1
  /\ task.received = task.emitted
  /\ containerKind = "both" => task.fetches = task.pageLoads + task.received
  /\ containerKind = "absent" => task.fetches = 0
  /\ fetchSnap.lang # None =>
       /\ fetchSnap.lang = fetchSnap.active
       /\ fetchSnap.path = (IF fetchSnap.active = "cs" THEN "cs" ELSE "en")

\* a fetch of the Czech document was started for a notification while the
\* page-load fetch of the English one was still in flight
C10_Witness ==
  /\ containerKind = "both"
  /\ task.received = 1
  /\ task.fetches = 1
  /\ fetchSnap.path = "cs"
  /\ inflight["en"] = 1
  /\ inflight["cs"] = 1

\* C11: when a policy load fails (fetch rejected, response not ok or the
\* formatter threw), the container is replaced by the hard-coded error
\* message of the language active at that moment, Czech for cs and English
\* otherwise, and the task ends normally with nothing else changed.
C11_InlineError ==
  [][\A p \in Langs, r \in FetchResults :
       (r.outcome # "ok" /\ FetchSettled(p, r)) =>
         /\ content' = [kind |-> "error",
                        lang |-> IF currentLang = "cs" THEN "cs" ELSE "en"]
         /\ inflight'[p] = inflight[p] - 1
         /\ UNCHANGED <<currentLang, plLang, lsLang, text, timers,
                        languageChanging, initialized>>]_vars

\* the Czech message is shown after the fetch started for English at page
\* load failed once the language had been switched to Czech
C11_Witness ==
  /\ content = [kind |-> "error", lang |-> "cs"]
  /\ currentLang = "cs"
  /\ fetchSnap.path = "cs"
  /\ inflight["cs"] = 1
  /\ inflight["en"] = 0

\* C12: once a policy load has been triggered on a page with a policy
\* container, the container holds the loading placeholder, a formatted
\* document of at least one block or the inline error message.
C12_ContainerNeverEmpty ==
  (containerKind # "absent" /\ phase = "ready") =>
    content.kind \in {"loading", "doc", "error"}

\* C13: while a policy load's fetch is in flight, the container shows the
\* loading placeholder rendered in the active language.
C13_LocalizedPlaceholder ==
  (containerKind = "both" /\ \E p \in Langs : inflight[p] > 0) =>
    content = [kind |-> "loading", lang |-> currentLang]

\* C14: when a catalog fetch fails, init() ends with the manager marked
\* initialized and the page untouched: no render pass, no listeners, no
\* timer or animation frame, nothing emitted; and init() never goes back to
\* fetching.
C14_DegradedInit ==
  [][/\ CatalogsFailed =>
          /\ initialized'
          /\ initPc' = "done"
          /\ task' = NoTask
          /\ UNCHANGED <<text, content, docLang, rootDark, selValue,
                         selListeners, themeListeners, eventListenersSetup,
                         langChangingClass, bodyLoading, renderSnap, timers,
                         rafPending, inflight, currentLang, currentTheme,
                         lsLang, lsTheme, languageChanging>>
     /\ initPc = "done" => initPc' = "done"]_vars

\* init() failed after the English catalog had been parsed
C14_Witness ==
  /\ initPc = "done"
  /\ initialized
  /\ DOMAIN translations = {"en"}
  /\ themeListeners = 0
  /\ renderSnap = NoSnap
  /\ \A e \in Elems : text[e] = Raw

\* C15: init() never leaves the page loading: once init() has completed and
\* no animation frame is left to run, the body no longer carries the loading
\* marker.
C15_LoadingEnds ==
  (initPc = "done" /\ ~rafPending) => ~bodyLoading

\* C16: however often and whenever init() is called, the catalogs are
\* fetched once, the theme-toggle and language-selector listeners are
\* attached once and the part of init() that renders runs once.
C16_InitIdempotent ==
  /\ catalogFetches <= 1
  /\ themeListeners <= 1
  /\ selListeners <= 1
  /\ initRuns <= 1

\* C17: when init() completes with both catalogs loaded, every translatable
\* element whose key resolves in the active catalog shows that catalog's
\* string.
C17_FirstRender ==
  [][CatalogsLoaded =>
       \A e \in Elems :
         (/\ currentLang' \in DOMAIN translations'
          /\ e \in translations'[currentLang']) => text'[e] = currentLang']_vars

\* C18: setTheme(t) leaves the active theme and the persisted theme at t and
\* the root element's dark marker present exactly when t is dark, whether
\* called by a script or by the toggle; once init() has run with the catalogs
\* loaded, the marker is present iff the active theme is dark.
C18_ThemeApplied ==
  [][/\ \A t \in Themes :
          SetThemeCall(t) =>
            (currentTheme' = t /\ lsTheme' = t /\ rootDark' = (t = "dark"))
     /\ (ThemeClick /\ themeListeners = 1) =>
          /\ currentTheme' = (IF currentTheme = "light" THEN "dark" ELSE "light")
          /\ lsTheme' = currentTheme'
          /\ rootDark' = (currentTheme' = "dark")
     /\ initRuns' >= 1 => rootDark' = (currentTheme' = "dark")]_vars

\* a script set the dark theme on a page whose init() had failed, so that no
\* toggle listener exists
C18_Witness ==
  /\ initPc = "done"
  /\ initRuns = 0
  /\ themeListeners = 0
  /\ currentTheme = "dark"
  /\ lsTheme = "dark"
  /\ rootDark

RoundTrip ==
  /\ trip # NoTrip
  /\ Len(trip) = 2
  /\ trip[1].lang = currentLang
  /\ trip[2].lang # currentLang
  /\ {currentLang, trip[2].lang} = Langs

RECURSIVE CatalogEntry(_, _)
CatalogEntry(node, keys) ==
  IF keys = <<>> THEN node
  ELSE IF node.t = "object" /\ Head(keys) \in DOMAIN node.f
  THEN CatalogEntry(node.f[Head(keys)], Tail(keys))
  ELSE [t |-> "missing"]

\* C22: an element whose key names a string of the active catalog shows that
\* string after the render pass, as placeholder if it is a text input and as
\* text otherwise; an element whose key has a missing segment is left as it
\* was.
C22_KeyResolution ==
  (probe.fn = "getNestedTranslation" /\ probe.done) =>
    LET entry == CatalogEntry(ProbeCatalog, probe.keys)
        asPlaceholder == probe.before.tag = "INPUT" /\
                         probe.before.type # "submit"
    IN /\ entry.t = "string" =>
            probe.el = IF asPlaceholder
                       THEN [probe.before EXCEPT !.placeholder = entry.v]
                       ELSE [probe.before EXCEPT !.textContent = entry.v]
       /\ entry.t = "missing" => probe.el = probe.before

FormattedRuns ==
  IF probe.fn = "formatPolicyContent"
  THEN {probe.runs[i].html : i \in 1..Len(probe.runs)}
  ELSE {}

\* A line of the document: blank, or beginning with a bullet marker
BlankLine(line) == \A i \in 1..Len(line) : line[i] = " "
BulletLine(line) == ~BlankLine(line) /\ isBullet(trim(line))
Occurrences(seq, x) == Cardinality({i \in 1..Len(seq) : seq[i] = x})

\* The list and block tags of the html, in order
IsMarkup(x) == x \in {"<ul>", "</ul>", "<li>", "<h3>", "<p>"}
Markup(html) ==
  LET tags == SelectSeq(html, IsMarkup)
  IN [k \in 1..Len(tags) |->
        IF tags[k] \in {"<h3>", "<p>"} THEN "block" ELSE tags[k]]

\* The same, as the claim derives it from the lines: a run of consecutive
\* bullet lines is one list
RECURSIVE ExpectedMarkup(_, _)
ExpectedMarkup(doc, i) ==
  IF i > Len(doc) THEN <<>>
  ELSE (IF BlankLine(doc[i]) THEN <<>>
        ELSE IF BulletLine(doc[i])
        THEN (IF i = 1 \/ ~BulletLine(doc[i - 1])
              THEN <<"<ul>">> ELSE <<>>) \o
             <<"<li>">> \o
             (IF i = Len(doc) \/ ~BulletLine(doc[i + 1])
              THEN <<"</ul>">> ELSE <<>>)
        ELSE <<"block">>) \o ExpectedMarkup(doc, i + 1)

\* Lists open after the first k tags
OpenLists(tags, k) ==
  Cardinality({j \in 1..k : tags[j] = "<ul>"}) -
  Cardinality({j \in 1..k : tags[j] = "</ul>"})

\* C24: in the html of every document list opens and closes are balanced and
\* never nested, every list item lies inside an open list, and the lists are
\* exactly the runs of consecutive bullet lines: opened by the first bullet
\* line of a run, closed after its last one, at the end of the document too.
C24_ListsWellFormed ==
  \A html \in FormattedRuns :
    LET tags == Markup(html)
    IN /\ \A k \in 1..Len(tags) :
            /\ OpenLists(tags, k) \in {0, 1}
            /\ tags[k] = "<li>" => OpenLists(tags, k) = 1
       /\ OpenLists(tags, Len(tags)) = 0
       /\ tags = ExpectedMarkup(probe.doc, 1)
C24_Witness ==
  /\ FormattedRuns # {}
  /\ probe.doc = << <<"a", "b", ".">>, <<"bullet", " ", "a">>,
                    <<"-", " ", "A", "B">> >>
  /\ \A html \in FormattedRuns :
       SelectSeq(html, IsMarkup) = <<"<p>", "<ul>", "<li>", "<li>", "</ul>">>

\* The block a non-blank line was emitted as
IsLineBlock(x) == x \in {"<li>", "<h3>", "<p>"}
BlockOfLine(doc, html, i) ==
  LET blocks == SelectSeq(html, IsLineBlock)
      k == Cardinality({j \in 1..i : ~BlankLine(doc[j])})
  IN IF k <= Len(blocks) THEN blocks[k] ELSE "none"

\* The three conditions of a heading, as the claim words them
KnownTitle(line) == line \in knownHeadlines
AllowedPunctuation == {"&", "(", ")", "/", "endash", "-"}
FullCapitals(line) ==
  \A i \in 1..Len(line) :
    line[i] \in CapitalLetters \cup {" "} \cup AllowedPunctuation
Flanked(doc, i) ==
  /\ i = 1 \/ BlankLine(doc[i - 1])
  /\ i = Len(doc) \/ BlankLine(doc[i + 1])
ShortAndPlain(line, endings) ==
  /\ length(line) < 80
  /\ line[Len(line)] \notin endings
  /\ \A i \in 1..Len(line) : line[i] \notin {"@", Http, "[", ":"}
  /\ ~includes(line, <<"]", "(">>)
  /\ line[1] \notin Digits

\* Every non-bullet, non-blank line is a heading or a paragraph as told by
\* the given condition
ClassifiedBy(IsHeading(_, _)) ==
  \A html \in FormattedRuns :
    \A i \in 1..Len(probe.doc) :
      (~BlankLine(probe.doc[i]) /\ ~BulletLine(probe.doc[i])) =>
        BlockOfLine(probe.doc, html, i) =
          IF IsHeading(probe.doc, i) THEN "<h3>" ELSE "<p>"

\* C25 as stated: a non-bullet, non-blank line is a heading exactly if it is
\* a known title, or in full capitals, or flanked by blank lines or the
\* document boundary and short without sentence punctuation at its end,
\* without markers and without a leading digit; otherwise it is a paragraph.
C25_OriginalHeading(doc, i) ==
  LET line == trim(doc[i])
  IN \/ KnownTitle(line)
     \/ FullCapitals(line)
     \/ Flanked(doc, i) /\ ShortAndPlain(line, {".", ",", "!", "?"})
C25_AmendedHeading(doc, i) ==
  LET line == trim(doc[i])
  IN \/ KnownTitle(line)
     \/ FullCapitals(line) /\ length(line) >= 4
     \/ /\ Flanked(doc, i)
        /\ ShortAndPlain(line, {".", ","})
        /\ length(line) >= 3
C26_Original ==
  \A html \in FormattedRuns :
    \A i \in 1..Len(probe.doc) :
      (FullCapitals(trim(probe.doc[i])) /\ length(trim(probe.doc[i])) >= 4)
        => BlockOfLine(probe.doc, html, i) = "<h3>"

\* C26: every line in full capitals of at least 4 characters that does not
\* begin with a bullet marker is a heading, whatever its neighbours and
\* whether a list is open or not.
C26_CapitalsAreHeadings ==
  \A html \in FormattedRuns :
    \A i \in 1..Len(probe.doc) :
      (/\ FullCapitals(trim(probe.doc[i]))
       /\ length(trim(probe.doc[i])) >= 4
       /\ ~BulletLine(probe.doc[i]))
        => BlockOfLine(probe.doc, html, i) = "<h3>"
C26_Witness ==
  /\ probe.doc = << <<"bullet", " ", "a">>, <<"A", "B", " ", "C">>,
                    <<"a", "b", ".">> >>
  /\ \E html \in FormattedRuns :
       SelectSeq(html, IsMarkup) = <<"<ul>", "<li>", "</ul>", "<h3>", "<p>">>

\* What the html holds between the tags of the k-th line block
BlockContent(html, k) ==
  LET open == CHOOSE p \in 1..Len(html) :
                /\ IsLineBlock(html[p])
                /\ Cardinality({q \in 1..p : IsLineBlock(html[q])}) = k
      close == CHOOSE q \in (open + 1)..Len(html) :
                 /\ html[q] \in {"</li>", "</h3>", "</p>"}
                 /\ \A r \in (open + 1)..(q - 1) :
                      html[r] \notin {"</li>", "</h3>", "</p>"}
  IN SubSeq(html, open + 1, close - 1)

\* The spans of a line, as the claim names them
EmphasisSpans(line) == Occurrences(line, Bold) \div 2
BracketedLinks(line) ==
  {i \in 1..Len(line) :
     /\ line[i] = "["
     /\ \E k \in (i + 2)..Len(line), m \in (i + 6)..Len(line) :
          /\ k + 3 < m
          /\ line[k] = "]" /\ line[k + 1] = "(" /\ line[k + 2] = Http
          /\ line[m] = ")"
          /\ \A j \in (i + 1)..(k - 1) : line[j] # "]"
          /\ \A j \in (k + 3)..(m - 1) : line[j] # ")"}
BareUrls(line) ==
  {i \in 1..(Len(line) - 1) :
     /\ line[i] = Http
     /\ line[i + 1] # " "
     /\ ~(i > 2 /\ line[i - 1] = "(" /\ line[i - 2] = "]")}

\* C27: the html of a list item or paragraph holds one emphasis span for each
\* **text** span of the line and one link for each [label](url) span; the
\* bare URLs are linked too, one link each, exactly on the lines without a
\* [label](url) span.
C27_InlineFormatting ==
  \A html \in FormattedRuns :
    \A i \in 1..Len(probe.doc) :
      LET line == IF BulletLine(probe.doc[i])
                  THEN substring(trim(probe.doc[i]), 2)
                  ELSE trim(probe.doc[i])
          k == Cardinality({j \in 1..i : ~BlankLine(probe.doc[j])})
      IN (/\ ~BlankLine(probe.doc[i])
          /\ BlockOfLine(probe.doc, html, i) \in {"<li>", "<p>"}) =>
           /\ Occurrences(BlockContent(html, k), "<strong>") =
                EmphasisSpans(line)
           /\ Occurrences(BlockContent(html, k), "<a href=\"") =
                IF BracketedLinks(line) # {}
                THEN Cardinality(BracketedLinks(line))
                ELSE Cardinality(BareUrls(line))
C27_Witness ==
  /\ probe.doc = << <<"-", " ", Bold, "a", Bold, " ", Http, "b">>, <<>>,
                    <<"[", "a", "]", "(", Http, "b", ")">> >>
  /\ \E html \in FormattedRuns :
       /\ Occurrences(BlockContent(html, 1), "<strong>") = 1
       /\ Occurrences(BlockContent(html, 1), "<a href=\"") = 1
       /\ includes(BlockContent(html, 1), <<"<a href=\"", Http, "b", "\"">>)
       /\ BlockContent(html, 2) = anchor(<<Http, "b">>, <<"a">>)

\* The events a user or another script causes
UserEvent ==
  \/ \E v \in Langs : SelectorChange(v)
  \/ ThemeClick
  \/ \E l \in Langs : SetLanguageCall(l)
  \/ \E t \in Themes : SetThemeCall(t)

\* The timers that retry a lookup of the language selector
RetryKinds == {"setupRetry", "selRetry"}
Pending(ts, kinds) ==
  Cardinality(UNION {{<<g, i>> : i \in {j \in 1..Len(ts[g]) :
                                            ts[g][j] \in kinds}} :
                     g \in 1..Len(ts)})
PendingRetries(ts) == Pending(ts, RetryKinds)

\* C28: retries are scheduled only while the language selector is missing,
\* the listener wiring is retried once, a retry that fires schedules no
\* further retry, and once the user events have stopped the page reaches a
\* state without pending timers and stays there.
C28_RetriesBounded ==
  /\ [](hasSelector => PendingRetries(timers) = 0)
  /\ [][\A g \in 1..Len(timers) : \A i \in 1..Len(timers[g]) :
          (timers[g][i] \in RetryKinds /\ FireTimer(g, i)) =>
            /\ PendingRetries(timers') < PendingRetries(timers)
            /\ timers[g][i] = "setupRetry" => ~TimerPending("setupRetry")'
            /\ selListeners' = selListeners]_vars
  /\ <>[][~UserEvent]_vars => <>[](timers = <<>> /\ ~rafPending)
C28_Witness ==
  /\ ~hasSelector
  /\ initPc = "done"
  /\ initialized
  /\ ~eventListenersSetup
  /\ selListeners = 0
  /\ timers = <<>>
  /\ ~rafPending

\* C30: the re-entrancy flag is set exactly when one flag-reset timer is
\* pending, and there is never more than one.
C30_FlagIffResetPending ==
  /\ Pending(timers, {"reset"}) <= 1
  /\ languageChanging <=> Pending(timers, {"reset"}) = 1
C30_Witness ==
  /\ languageChanging
  /\ Pending(timers, {"reset"}) = 1
  /\ currentLang = "cs"
  /\ lsLang = "cs"
  /\ Len(timers) > 1
  /\ timers[Len(timers)] # <<"reset">>
  /\ task.emitted = 0

\* The steps of init() whose order C29 is about
IsInitStep(step) ==
  step \in {"catalogs", "theme", "themeListener", "selectorListener",
            "setLanguage"}
TookEffect(order) ==
  {i \in 1..Len(order) : order[i] \in {"render", "switch"}}

\* C29: the task in which a successful init() continues loads the catalogs,
\* then applies the theme, then wires the theme-toggle and language-selector
\* listeners, then applies the resolved language; within it every render and
\* switch comes after the theme, and before it nothing was rendered or
\* switched and no listener was wired.
C29_InitOrder ==
  /\ [][(initPc = "fetching" /\ initRuns' = initRuns + 1) =>
          /\ SelectSeq(task'.order, IsInitStep) =
               <<"catalogs", "theme", "themeListener">> \o
               (IF hasSelector THEN <<"selectorListener">> ELSE <<>>) \o
               <<"setLanguage">>
          /\ \A i \in TookEffect(task'.order) :
               \E j \in 1..(i - 1) : task'.order[j] = "theme"]_vars
  /\ []((initRuns = 0 /\ initPc # "done") =>
          /\ renderSnap = NoSnap
          /\ \A e \in Elems : text[e] = Raw
          /\ themeListeners = 0
          /\ selListeners = 0
          /\ ~languageChanging)
  /\ [][(initRuns = 0 /\ initPc # "done") =>
          (currentLang' = currentLang /\ currentTheme' = currentTheme)]_vars
C29_Witness ==
  /\ hasSelector
  /\ currentTheme = "dark"
  /\ rootDark
  /\ initRuns = 1
  /\ task.order = <<"catalogs", "theme", "themeListener", "render",
                    "selectorListener", "setLanguage">>

C32_SelectorShowsActive ==
  (hasSelector /\ initRuns > 0 /\ timers = <<>>) => selValue = currentLang

\* C33: a setTheme call and a click on the theme toggle leave the active
\* language, the stored language, the re-entrancy flag and the catalogs as
\* they were and emit no notification; a setLanguage call leaves the active
\* theme, the stored theme and the root marker as they were.
C33_ThemeLanguageIndependent ==
  [][/\ (ThemeClick \/ \E t \in Themes : SetThemeCall(t)) =>
          /\ UNCHANGED <<currentLang, lsLang, languageChanging, translations,
                         lastNotif, notifSnap, docLang, text>>
          /\ task'.emitted = 0
     /\ (\E l \in Langs : SetLanguageStep(l)) =>
          UNCHANGED <<currentTheme, lsTheme, rootDark>>]_vars

\* the theme was set to dark while a switch to cs was guarded, and the switch
\* happened on a dark page
C33_Witness ==
  /\ languageChanging
  /\ currentLang = "cs"
  /\ lsLang = "cs"
  /\ currentTheme = "dark"
  /\ lsTheme = "dark"
  /\ rootDark
  /\ TimerPending("reset")
  /\ task.emitted = 0

\* The non-blank lines of a document, in document order
NonBlankLines(doc) == SelectSeq(doc, LAMBDA line : ~BlankLine(line))

\* C35: the html of every document holds exactly one block (list item,
\* heading or paragraph) per non-blank line and nothing for the blank ones;
\* the k-th block carries the k-th non-blank line, so that no line is
\* dropped, duplicated or reordered.
C35_OneBlockPerLine ==
  \A html \in FormattedRuns :
    LET lines == NonBlankLines(probe.doc)
        blocks == SelectSeq(html, IsLineBlock)
    IN /\ Len(blocks) = Len(lines)
       /\ Len(SelectSeq(html, LAMBDA x : x \in {"</li>", "</h3>", "</p>"})) =
            Len(lines)
       /\ \A k \in 1..Len(lines) :
            LET line == trim(lines[k])
            IN /\ blocks[k] = "<li>" <=> isBullet(line)
               /\ BlockContent(html, k) =
                    IF blocks[k] = "<li>"
                    THEN formatInline(SubSeq(line, 3, Len(line)))
                    ELSE IF blocks[k] = "<h3>" THEN line
                    ELSE formatInline(line)
C35_Witness ==
  /\ probe.doc = << <<"a", "b", ".">>, <<" ">>, <<"-", " ", "A", "B">> >>
  /\ \E html \in FormattedRuns :
       html = <<"<p>", "a", "b", ".", "</p>", "<ul>", "<li>", "A", "B",
                "</li>", "</ul>">>

\* C36: once a tab button was clicked, exactly one tab button and exactly
\* one tab panel carry the active marker: the button clicked last and the
\* panel it names, also when that panel does not exist.
C36_OneActiveTab ==
  (probe.fn = "script" /\ probe.clickedTab # 0) =>
    /\ probe.activeButtons = {probe.clickedTab}
    /\ probe.activePanels = {probe.dataTab[probe.clickedTab]}

\* The last click hit neither the navigation, the toggle, the controls nor
\* the language switch
OutsideClick ==
  probe.last.target \notin {"none", "navigation", "navLink", "toggle",
                            "controls", "languageSwitch"}

\* C37: the navigation is marked open exactly when the toggle is marked
\* active, and after a click on a navigation link or outside the menu (not
\* on the controls or the language switch) the menu is closed.
C37_MenuClosedByClicks ==
  probe.fn = "script" =>
    /\ probe.navOpen <=> probe.toggleActive
    /\ (probe.last.target = "navLink" \/ OutsideClick) => ~probe.navOpen

\* C34: a click on the theme toggle flips the active theme between light and
\* dark once, with the stored theme and the root marker following it, so
\* that a second click restores all three.
C34_ToggleFlips ==
  [][ThemeClick =>
       /\ {currentTheme, currentTheme'} = Themes
       /\ lsTheme = currentTheme /\ rootDark = (currentTheme = "dark")
       /\ lsTheme' = currentTheme' /\ rootDark' = (currentTheme' = "dark")]_vars

Next ==
  \/ DOMContentLoaded
  \/ CatalogsLoaded
  \/ CatalogsFailed
  \/ WindowLoad
  \/ \E v \in Langs : SelectorChange(v)
  \/ ThemeClick
  \/ \E l \in Langs : SetLanguageCall(l)
  \/ \E t \in Themes : SetThemeCall(t)
  \/ \E g \in 1..Len(timers) : \E i \in 1..Len(timers[g]) : FireTimer(g, i)
  \/ AnimationFrame
  \/ \E p \in Langs, r \in FetchResults : FetchSettled(p, r)

Spec == Init /\ [][Next]_vars

\* Timers and animation frames of a page that stays open always fire.
\* One page load of a policy page with a language selector, nothing stored
\* and no URL parameter, with timers and animation frames that always fire
\* (the page stays open in a visible tab).
InitLive ==
  /\ Init
  /\ hasSelector
  /\ containerKind = "both"
  /\ lsLang = None
  /\ currentLang = "en"
  /\ currentTheme = "light"

FairSpec == InitLive /\ [][Next]_vars /\ WF_vars(TimerFires)

\* One page load of a page with a language selector and no policy container
\* (no policy fetch is ever started there), nothing stored and no URL
\* parameter, with other scripts calling init() as well
InitPlain ==
  /\ Init
  /\ hasSelector
  /\ containerKind = "absent"
  /\ lsLang = None
  /\ currentLang = "en"
  /\ currentTheme = "light"

NextWithInitCalls ==
  \/ DOMContentLoaded
  \/ CatalogsLoaded
  \/ CatalogsFailed
  \/ InitCall
  \/ InitCallLoaded
  \/ InitCallFailed
  \/ WindowLoad
  \/ \E v \in Langs : SelectorChange(v)
  \/ ThemeClick
  \/ \E l \in Langs : SetLanguageCall(l)
  \/ \E t \in Themes : SetThemeCall(t)
  \/ \E g \in 1..Len(timers) : \E i \in 1..Len(timers[g]) : FireTimer(g, i)
  \/ AnimationFrame

InitCallSpec == InitPlain /\ [][NextWithInitCalls]_vars

\* One page load of a page without policy container, with or without a
\* language selector, keeping what was shown before the last two switches
InitTrip ==
  /\ ScriptsLoaded
  /\ probe = NoProbe
  /\ containerKind = "absent"
  /\ currentTheme = "light"
  /\ trip = <<>>

NextOnPlainPage ==
  \/ DOMContentLoaded
  \/ CatalogsLoaded
  \/ CatalogsFailed
  \/ WindowLoad
  \/ \E v \in Langs : SelectorChange(v)
  \/ ThemeClick
  \/ \E l \in Langs : SetLanguageCall(l)
  \/ \E t \in Themes : SetThemeCall(t)
  \/ \E g \in 1..Len(timers) : \E i \in 1..Len(timers[g]) : FireTimer(g, i)
  \/ AnimationFrame

RoundTripSpec == InitTrip /\ [][NextOnPlainPage]_vars

\* One page load of a page without policy container, with or without the
\* language selector; every timer that is due fires
InitRetry ==
  /\ Init
  /\ containerKind = "absent"
  /\ lsLang = None
  /\ currentTheme = "light"
RetrySpec == InitRetry /\ [][NextOnPlainPage]_vars /\ WF_vars(TimerFires)

\* A page at rest, for the pure functions examined on their own
PageAtRest ==
  /\ ScriptsLoaded
  /\ hasSelector
  /\ containerKind = "absent"
  /\ lsLang = None
  /\ currentLang = "en"
  /\ currentTheme = "light"
  /\ trip = NoTrip

\* The render pass on one element, for every key and kind of element
InitRenderKey == PageAtRest /\ BeforeRender
RenderKeySpec == InitRenderKey /\ [][RenderElement]_vars

\* The formatter called between the events of a page without policy container
InitPurity ==
  /\ ScriptsLoaded
  /\ containerKind = "absent"
  /\ currentTheme = "light"
  /\ trip = NoTrip
  /\ BeforeFormat(PurityDocuments)
PuritySpec == InitPurity /\ [][NextOnPlainPage \/ FormatCall]_vars

\* The formatter alone, on every document of the sample lines
InitFormat == PageAtRest /\ BeforeFormat(Documents)
FormatSpec == InitFormat /\ [][FormatCall]_vars

\* The tabs and the mobile menu of script.js, under the clicks of the user
InitScript == PageAtRest /\ BeforeClicks
NextScript ==
  \/ \E b \in TabButtons : TabClick(b)
  \/ \E target \in MenuTargets, href \in Hrefs : MenuClick(target, href)
ScriptSpec == InitScript /\ [][NextScript]_vars

\* The constructors alone, from every combination of their inputs
ConstructorSpec == BeforeScripts /\ [][RunScripts]_vars

====
